---- MODULE Spec2Model ----
(***************************************************************************)
(* Sparse matrix products of src/src/sparse/prod.rs:                       *)
(*   mul_acc_mat_vec_csc, mul_acc_mat_vec_csr  (res_vec += mat * in_vec)   *)
(*   csr_mul_csr                               (row-major sparse product)  *)
(* Scalars are mathematical integers (N: Num + Copy instantiated at an     *)
(* integer type, values far from the type's limits).  Indices are 0-based  *)
(* as in the source; TLA+ sequences are 1-based, so slot i of a buffer b   *)
(* is b[i + 1].                                                            *)
(***************************************************************************)
EXTENDS Integers, Sequences, FiniteSets, TLC

\* Numbers of rows / columns of a generated matrix, and lengths of a
\* generated vector or workspace.
Dims == 0..2
\* Largest number of stored entries of a generated matrix.
MaxNnz == 2
\* Largest number of successive calls of a matrix-vector kernel into the
\* same output buffer.
MaxCalls == 2

\* Numbers of rows of the first matrix of a chained product (its rows are
\* computed independently of each other).
ChainRows == 0..1

\* Scalars stored in generated matrices and input vectors.
Vals == {-1, 2}
\* Scalars found in an output buffer before the first call.
OutVals == {0, 5}
\* Scalars found in an occupied workspace slot before the call.
StaleVals == {7}

\* kernel     the function called: "csc", "csr" (matrix-vector) or "mm"
\* lhs        mat of a matrix-vector kernel, lhs of csr_mul_csr
\* rhs        rhs of csr_mul_csr
\* in_vec, res_vec, workspace   the buffers of the call
\* res        the matrix csr_mul_csr builds
\* pc         position in the function; outer: index of the next outer slice
\* calls      number of calls started into res_vec
\* res_hist   res_vec on entry of each call; workspace0: workspace on entry
\* matC, ab, bc, ab_c, a_bc   a third matrix and the outcomes of the four
\*            calls that form (lhs x rhs) x matC and lhs x (rhs x matC)
VARIABLES kernel, lhs, rhs, in_vec, res_vec, workspace, res, pc, outer,
          calls, res_hist, workspace0, matC, ab, bc, ab_c, a_bc

call_vars == <<kernel, lhs, rhs, in_vec, res_vec, workspace, res, pc, outer,
               calls, res_hist, workspace0>>
call_vars_but_pc == <<kernel, lhs, rhs, in_vec, res_vec, workspace, res,
                      outer, calls, res_hist, workspace0>>
chain_vars == <<matC, ab, bc, ab_c, a_bc>>
vars == <<call_vars, chain_vars>>

-----------------------------------------------------------------------------
(* Option<N>: None is the empty tuple, Some(v) the one-element tuple.      *)
None == <<>>
Some(v) == <<v>>

(* CsMat: storage order, dimensions and the three parallel arrays.         *)
CSR == "CSR"
CSC == "CSC"

rows(mat) == mat.nrows
cols(mat) == mat.ncols
storage_type(mat) == mat.storage

outer_dims(mat) == IF mat.storage = CSR THEN mat.nrows ELSE mat.ncols
inner_dims(mat) == IF mat.storage = CSR THEN mat.ncols ELSE mat.nrows

\* The sparse vector of outer index o: its (inner index, value) pairs in
\* storage order, which is ascending inner index.
OuterVec(mat, o) ==
    LET start == mat.indptr[o + 1]
        stop  == mat.indptr[o + 2]
    IN  [n \in 1..(stop - start) |->
            <<mat.indices[start + n], mat.data[start + n]>>]

\* outer_iterator(): the (outer index, sparse vector) pairs, ascending.
outer_iterator(mat) ==
    [n \in 1..outer_dims(mat) |-> <<n - 1, OuterVec(mat, n - 1)>>]

\* Lexicographic order of (outer, inner) positions.
Before(p, q) == p[1] < q[1] \/ (p[1] = q[1] /\ p[2] < q[2])

\* The compressed matrix whose stored positions are S (pairs <<outer,
\* inner>>) with values val[p].
from_entries(storage, nouter, ninner, S, val) ==
    LET nth(n) == CHOOSE p \in S : Cardinality({q \in S : Before(q, p)}) = n - 1
    IN  [storage |-> storage,
         nrows   |-> IF storage = CSR THEN nouter ELSE ninner,
         ncols   |-> IF storage = CSR THEN ninner ELSE nouter,
         indptr  |-> [o \in 1..(nouter + 1) |->
                         Cardinality({q \in S : q[1] < o - 1})],
         indices |-> [n \in 1..Cardinality(S) |-> nth(n)[2]],
         data    |-> [n \in 1..Cardinality(S) |-> val[nth(n)]]]

\* Every valid matrix of one storage order and shape within the bounds.
MatsOf(storage, nouter, ninner) ==
    LET Pos == (0..(nouter - 1)) \X (0..(ninner - 1))
    IN  UNION {{from_entries(storage, nouter, ninner, S, val) :
                   val \in [S -> Vals]} :
               S \in {T \in SUBSET Pos : Cardinality(T) <= MaxNnz}}

Mats(storage) ==
    UNION {MatsOf(storage, no, ni) : no \in Dims, ni \in Dims}

\* CsMat::empty(storage, inner_dim): no outer slice yet.
empty(storage, inner_dim) ==
    [storage |-> storage,
     nrows   |-> IF storage = CSR THEN 0 ELSE inner_dim,
     ncols   |-> IF storage = CSR THEN inner_dim ELSE 0,
     indptr  |-> <<0>>,
     indices |-> <<>>,
     data    |-> <<>>]

\* The occupied slots of a workspace as (index, value) pairs, ascending.
RECURSIVE Compress(_, _)
Compress(ws, n) ==
    IF n = 0 THEN <<>>
    ELSE IF ws[n] = None THEN Compress(ws, n - 1)
         ELSE Append(Compress(ws, n - 1), <<n - 1, ws[n][1]>>)

\* append_outer(data): one more outer slice, holding the occupied slots.
append_outer(mat, ws) ==
    LET row == Compress(ws, Len(ws))
    IN  [mat EXCEPT
            !.nrows   = IF mat.storage = CSR THEN @ + 1 ELSE @,
            !.ncols   = IF mat.storage = CSR THEN @ ELSE @ + 1,
            !.indptr  = Append(@, Len(mat.indices) + Len(row)),
            !.indices = @ \o [n \in 1..Len(row) |-> row[n][1]],
            !.data    = @ \o [n \in 1..Len(row) |-> row[n][2]]]

\* nnz_zip: the (index, left value, right value) triples of the indices
\* stored in both sparse vectors, ascending (a sorted intersection).
RECURSIVE nnz_zip(_, _)
nnz_zip(lvec, rvec) ==
    IF lvec = <<>> \/ rvec = <<>> THEN <<>>
    ELSE IF lvec[1][1] < rvec[1][1] THEN nnz_zip(Tail(lvec), rvec)
    ELSE IF lvec[1][1] > rvec[1][1] THEN nnz_zip(lvec, Tail(rvec))
    ELSE <<<<lvec[1][1], lvec[1][2], rvec[1][2]>>>>
             \o nnz_zip(Tail(lvec), Tail(rvec))

\* Slice indexing buf[i]: in range, or the panic of an out-of-range index.
InRange(buf, i) == i >= 0 /\ i < Len(buf)

-----------------------------------------------------------------------------
(* mul_acc_mat_vec_csc, lines 8-22.                                        *)

\* Lines 16-20: the inner loop over one column's (row_ind, value) pairs.
\* The accumulator is [ok, v]: ok turns FALSE at an out-of-range index,
\* where the loop stops with the buffer as it then is.
\* csc_inner with `res_vec[row_ind] = *multiplier * value`.
RECURSIVE csc_inner_overwrite(_, _, _)
csc_inner_overwrite(vec, multiplier, acc) ==
    IF vec = <<>> \/ ~acc.ok THEN acc
    ELSE LET row_ind == vec[1][1]
             value   == vec[1][2]
         IN  IF ~InRange(acc.v, row_ind)
             THEN [acc EXCEPT !.ok = FALSE]
             ELSE csc_inner_overwrite(Tail(vec), multiplier,
                      [acc EXCEPT !.v[row_ind + 1] = multiplier * value])

RECURSIVE csc_inner(_, _, _)
csc_inner(vec, multiplier, acc) ==
    IF vec = <<>> \/ ~acc.ok THEN acc
    ELSE LET row_ind == vec[1][1]
             value   == vec[1][2]
         IN  IF ~InRange(acc.v, row_ind)
             THEN [acc EXCEPT !.ok = FALSE]
             ELSE csc_inner(Tail(vec), multiplier,
                      [acc EXCEPT !.v[row_ind + 1] = @ + multiplier * value])

\* csc_outer taking the multiplier of column 0 for every column.
csc_outer_first_multiplier(col_ind, vec, input, buf) ==
    IF ~InRange(input, col_ind)
    THEN [ok |-> FALSE, v |-> buf]
    ELSE csc_inner(vec, input[1], [ok |-> TRUE, v |-> buf])

\* Lines 14-15 and the inner loop: one iteration of the outer loop.
csc_outer(col_ind, vec, input, buf) ==
    IF ~InRange(input, col_ind)
    THEN [ok |-> FALSE, v |-> buf]
    ELSE csc_inner(vec, input[col_ind + 1], [ok |-> TRUE, v |-> buf])

\* Lines 10-12: the asserts of mul_acc_mat_vec_csc.
csc_asserts(mat, input, buf) ==
    /\ cols(mat) = Len(input)
    /\ rows(mat) = Len(buf)
    /\ storage_type(mat) = CSC

\* Lines 14-21: the loop over the columns still to come.
RECURSIVE csc_loop(_, _, _)
csc_loop(its, input, acc) ==
    IF its = <<>> \/ ~acc.ok THEN acc
    ELSE csc_loop(Tail(its), input,
             csc_outer(its[1][1], its[1][2], input, acc.v))

\* The whole call: its outcome and the output buffer as the call leaves it.
mul_acc_mat_vec_csc(mat, input, buf) ==
    IF ~csc_asserts(mat, input, buf)
    THEN [status |-> "assert_failed", v |-> buf]
    ELSE LET acc == csc_loop(outer_iterator(mat), input,
                        [ok |-> TRUE, v |-> buf])
         IN  [status |-> IF acc.ok THEN "ok" ELSE "index_panic", v |-> acc.v]

(* mul_acc_mat_vec_csr, lines 24-37.                                       *)

\* Lines 31-35: the inner loop over one row's (col_ind, value) pairs.
\* csr_inner writing the slot of the column instead of the row's.
RECURSIVE csr_inner_wrong_slot(_, _, _, _)
csr_inner_wrong_slot(row_ind, vec, input, acc) ==
    IF vec = <<>> \/ ~acc.ok THEN acc
    ELSE LET col_ind == vec[1][1]
             value   == vec[1][2]
         IN  IF ~InRange(acc.v, col_ind) \/ ~InRange(input, col_ind)
             THEN [acc EXCEPT !.ok = FALSE]
             ELSE csr_inner_wrong_slot(row_ind, Tail(vec), input,
                      [acc EXCEPT !.v[col_ind + 1] =
                                      @ + input[col_ind + 1] * value])

RECURSIVE csr_inner(_, _, _, _)
csr_inner(row_ind, vec, input, acc) ==
    IF vec = <<>> \/ ~acc.ok THEN acc
    ELSE LET col_ind == vec[1][1]
             value   == vec[1][2]
         IN  IF ~InRange(acc.v, row_ind) \/ ~InRange(input, col_ind)
             THEN [acc EXCEPT !.ok = FALSE]
             ELSE csr_inner(row_ind, Tail(vec), input,
                      [acc EXCEPT !.v[row_ind + 1] =
                                      @ + input[col_ind + 1] * value])

\* csr_inner with `res_vec[row_ind] = in_vec[col_ind] * value`.
RECURSIVE csr_inner_overwrite(_, _, _, _)
csr_inner_overwrite(row_ind, vec, input, acc) ==
    IF vec = <<>> \/ ~acc.ok THEN acc
    ELSE LET col_ind == vec[1][1]
             value   == vec[1][2]
         IN  IF ~InRange(acc.v, row_ind) \/ ~InRange(input, col_ind)
             THEN [acc EXCEPT !.ok = FALSE]
             ELSE csr_inner_overwrite(row_ind, Tail(vec), input,
                      [acc EXCEPT !.v[row_ind + 1] = input[col_ind + 1] * value])

\* csr_outer over the overwriting inner loop.
csr_outer_overwrite(row_ind, vec, input, buf) ==
    csr_inner_overwrite(row_ind, vec, input, [ok |-> TRUE, v |-> buf])

\* One iteration of the outer loop of line 30.
csr_outer(row_ind, vec, input, buf) ==
    csr_inner(row_ind, vec, input, [ok |-> TRUE, v |-> buf])

\* Lines 26-28: the asserts of mul_acc_mat_vec_csr.
csr_asserts(mat, input, buf) ==
    /\ cols(mat) = Len(input)
    /\ rows(mat) = Len(buf)
    /\ storage_type(mat) = CSR

\* Lines 30-36: the loop over the rows still to come.
RECURSIVE csr_loop(_, _, _)
csr_loop(its, input, acc) ==
    IF its = <<>> \/ ~acc.ok THEN acc
    ELSE csr_loop(Tail(its), input,
             csr_outer(its[1][1], its[1][2], input, acc.v))

\* The whole call: its outcome and the output buffer as the call leaves it.
mul_acc_mat_vec_csr(mat, input, buf) ==
    IF ~csr_asserts(mat, input, buf)
    THEN [status |-> "assert_failed", v |-> buf]
    ELSE LET acc == csr_loop(outer_iterator(mat), input,
                        [ok |-> TRUE, v |-> buf])
         IN  [status |-> IF acc.ok THEN "ok" ELSE "index_panic", v |-> acc.v]

-----------------------------------------------------------------------------
(* csr_mul_csr, lines 49-83.                                               *)

\* reset_workspace leaving the slots as they are.
reset_workspace_skipped(ws) == ws

\* Lines 64-66: reset the accumulators.
reset_workspace(ws) == [n \in 1..Len(ws) |-> None]

\* acc_zip with `prod = lval + rval`.
RECURSIVE acc_zip_sum(_, _)
acc_zip_sum(triples, acc) ==
    IF triples = <<>> \/ ~acc.ok THEN acc
    ELSE LET col_ind == triples[1][1]
             prod    == triples[1][2] + triples[1][3]
         IN  IF ~InRange(acc.v, col_ind)
             THEN [acc EXCEPT !.ok = FALSE]
             ELSE acc_zip_sum(Tail(triples),
                      [acc EXCEPT !.v[col_ind + 1] =
                          IF @ = None THEN Some(prod)
                                      ELSE Some(@[1] + prod)])

\* acc_zip with `prod = lval`.
RECURSIVE acc_zip_left(_, _)
acc_zip_left(triples, acc) ==
    IF triples = <<>> \/ ~acc.ok THEN acc
    ELSE LET col_ind == triples[1][1]
             prod    == triples[1][2]
         IN  IF ~InRange(acc.v, col_ind)
             THEN [acc EXCEPT !.ok = FALSE]
             ELSE acc_zip_left(Tail(triples),
                      [acc EXCEPT !.v[col_ind + 1] =
                          IF @ = None THEN Some(prod)
                                      ELSE Some(@[1] + prod)])

\* Lines 69-76: fold the triples of one nnz_zip into the workspace.  The
\* accumulator is [ok, v] as in the matrix-vector kernels.
RECURSIVE acc_zip(_, _)
acc_zip(triples, acc) ==
    IF triples = <<>> \/ ~acc.ok THEN acc
    ELSE LET col_ind == triples[1][1]
             lval    == triples[1][2]
             rval    == triples[1][3]
             prod    == lval * rval
         IN  IF ~InRange(acc.v, col_ind)
             THEN [acc EXCEPT !.ok = FALSE]
             ELSE acc_zip(Tail(triples),
                      [acc EXCEPT !.v[col_ind + 1] =
                          IF @ = None THEN Some(prod)
                                      ELSE Some(@[1] + prod)])

\* Lines 68-77: accumulate one row of lhs against the rows of rhs, in the
\* order of rhs.outer_iterator().
RECURSIVE accumulate_row(_, _, _)
accumulate_row(lvec, rrows, acc) ==
    IF rrows = <<>> \/ ~acc.ok THEN acc
    ELSE accumulate_row(lvec, Tail(rrows),
             acc_zip(nnz_zip(lvec, rrows[1][2]), acc))

\* mm_asserts without the assert on the workspace's length.
mm_asserts_no_workspace(l, r, ws) ==
    /\ cols(l) = rows(r)
    /\ storage_type(l) = storage_type(r)
    /\ CSR = storage_type(r)

\* Lines 56-59: the four assert_eq! on the arguments.
mm_asserts(l, r, ws) ==
    /\ cols(l) = rows(r)
    /\ cols(r) = Len(ws)
    /\ storage_type(l) = storage_type(r)
    /\ CSR = storage_type(r)

\* Lines 62-80: the loop over the rows of lhs, from the state [st, res, ws]
\* before the row lrows[1].
RECURSIVE mm_rows(_, _, _)
mm_rows(lrows, r, st) ==
    IF lrows = <<>> \/ st.status # "ok" THEN st
    ELSE LET acc == accumulate_row(lrows[1][2], outer_iterator(r),
                        [ok |-> TRUE, v |-> reset_workspace(st.workspace)])
         IN  IF ~acc.ok
             THEN [st EXCEPT !.status = "index_panic", !.workspace = acc.v]
             ELSE mm_rows(Tail(lrows), r,
                      [st EXCEPT !.res = append_outer(@, acc.v),
                                 !.workspace = acc.v])

\* The whole call: its outcome, the matrix returned and the workspace as
\* the call leaves it.
csr_mul_csr(l, r, ws) ==
    IF ~mm_asserts(l, r, ws)
    THEN [status |-> "assert_failed", res |-> empty(CSR, 0), workspace |-> ws]
    ELSE LET st == mm_rows(outer_iterator(l), r,
                       [status |-> "ok",
                        res |-> empty(storage_type(l), cols(r)),
                        workspace |-> ws])
         IN  IF st.status = "ok" /\ rows(l) # rows(st.res)
             THEN [st EXCEPT !.status = "assert_failed"]
             ELSE st

-----------------------------------------------------------------------------
(* The calls, as state machines.                                           *)

Vecs(V) == UNION {[1..n -> V] : n \in Dims}
Workspaces == Vecs({None} \cup {Some(v) : v \in StaleVals})
AnyMats == Mats(CSR) \cup Mats(CSC)
NoMat == empty(CSR, 0)
\* What a caller keeps of a call of csr_mul_csr: its outcome and result.
NotCalled == [status |-> "not_called", res |-> NoMat]
Returned(r) == [status |-> r.status, res |-> r.res]

InitMatVec ==
    /\ kernel \in {"csc", "csr"}
    /\ lhs \in AnyMats
    /\ rhs = NoMat
    /\ in_vec \in Vecs(Vals)
    /\ res_vec \in Vecs(OutVals)
    /\ workspace = <<>>

InitProduct ==
    /\ kernel = "mm"
    /\ lhs \in AnyMats
    /\ rhs \in AnyMats
    /\ in_vec = <<>>
    /\ res_vec = <<>>
    /\ workspace \in Workspaces

Init ==
    /\ InitMatVec \/ InitProduct
    /\ res = NoMat
    /\ pc = "call"
    /\ outer = 0
    /\ calls = 1
    /\ res_hist = <<res_vec>>
    /\ workspace0 = workspace
    /\ matC = NoMat
    /\ ab = NotCalled /\ bc = NotCalled /\ ab_c = NotCalled /\ a_bc = NotCalled

CscCheck ==
    /\ kernel = "csc" /\ pc = "call"
    /\ pc' = IF csc_asserts(lhs, in_vec, res_vec) THEN "loop"
                                                  ELSE "assert_failed"
    /\ outer' = 0
    /\ UNCHANGED <<kernel, lhs, rhs, in_vec, res_vec, workspace, res, calls,
                   res_hist, workspace0,
                   chain_vars>>

\* One iteration of the loop of line 14.
CscIter ==
    /\ kernel = "csc" /\ pc = "loop" /\ outer < outer_dims(lhs)
    /\ LET it  == outer_iterator(lhs)[outer + 1]
           acc == csc_outer(it[1], it[2], in_vec, res_vec)
       IN  /\ res_vec' = acc.v
           /\ pc' = IF acc.ok THEN "loop" ELSE "index_panic"
    /\ outer' = outer + 1
    /\ UNCHANGED <<kernel, lhs, rhs, in_vec, workspace, res, calls,
                   res_hist, workspace0,
                   chain_vars>>

CsrCheck ==
    /\ kernel = "csr" /\ pc = "call"
    /\ pc' = IF csr_asserts(lhs, in_vec, res_vec) THEN "loop"
                                                  ELSE "assert_failed"
    /\ outer' = 0
    /\ UNCHANGED <<kernel, lhs, rhs, in_vec, res_vec, workspace, res, calls,
                   res_hist, workspace0,
                   chain_vars>>

\* One iteration of the loop of line 30.
CsrIter ==
    /\ kernel = "csr" /\ pc = "loop" /\ outer < outer_dims(lhs)
    /\ LET it  == outer_iterator(lhs)[outer + 1]
           acc == csr_outer(it[1], it[2], in_vec, res_vec)
       IN  /\ res_vec' = acc.v
           /\ pc' = IF acc.ok THEN "loop" ELSE "index_panic"
    /\ outer' = outer + 1
    /\ UNCHANGED <<kernel, lhs, rhs, in_vec, workspace, res, calls,
                   res_hist, workspace0,
                   chain_vars>>

\* The outer iterator is exhausted: the kernel returns.
MatVecReturn ==
    /\ kernel \in {"csc", "csr"} /\ pc = "loop" /\ outer = outer_dims(lhs)
    /\ pc' = "done"
    /\ UNCHANGED <<kernel, lhs, rhs, in_vec, res_vec, workspace, res, outer,
                   calls, res_hist, workspace0,
                   chain_vars>>

\* The caller calls the same kernel again with the same matrix and input,
\* into the output buffer as the previous call left it.
CallAgain ==
    /\ kernel \in {"csc", "csr"} /\ pc = "done" /\ calls < MaxCalls
    /\ calls' = calls + 1
    /\ res_hist' = Append(res_hist, res_vec)
    /\ pc' = "call"
    /\ UNCHANGED <<kernel, lhs, rhs, in_vec, res_vec, workspace, res, outer,
                   workspace0,
                   chain_vars>>

\* Lines 54-61 of csr_mul_csr.
MmCheck ==
    /\ kernel = "mm" /\ pc = "call"
    /\ IF mm_asserts(lhs, rhs, workspace)
       THEN /\ pc' = "loop"
            /\ res' = empty(storage_type(lhs), cols(rhs))
       ELSE /\ pc' = "assert_failed"
            /\ res' = res
    /\ outer' = 0
    /\ UNCHANGED <<kernel, lhs, rhs, in_vec, res_vec, workspace, calls,
                   res_hist, workspace0,
                   chain_vars>>

\* Lines 62-66: the next row of lhs; its accumulators are reset.
MmReset ==
    /\ kernel = "mm" /\ pc = "loop" /\ outer < outer_dims(lhs)
    /\ workspace' = reset_workspace(workspace)
    /\ pc' = "accum"
    /\ UNCHANGED <<kernel, lhs, rhs, in_vec, res_vec, res, outer, calls,
                   res_hist, workspace0,
                   chain_vars>>

\* Lines 68-77.
MmAccumulate ==
    /\ kernel = "mm" /\ pc = "accum"
    /\ LET lvec == outer_iterator(lhs)[outer + 1][2]
           acc  == accumulate_row(lvec, outer_iterator(rhs),
                       [ok |-> TRUE, v |-> workspace])
       IN  /\ workspace' = acc.v
           /\ pc' = IF acc.ok THEN "append" ELSE "index_panic"
    /\ UNCHANGED <<kernel, lhs, rhs, in_vec, res_vec, res, outer, calls,
                   res_hist, workspace0,
                   chain_vars>>

\* MmAppend appending nothing for a row whose accumulators are all empty.
MmAppendSkipsEmpty ==
    /\ kernel = "mm" /\ pc = "append"
    /\ res' = IF \A n \in 1..Len(workspace) : workspace[n] = None
              THEN res ELSE append_outer(res, workspace)
    /\ outer' = outer + 1
    /\ pc' = "loop"
    /\ UNCHANGED <<kernel, lhs, rhs, in_vec, res_vec, workspace, calls,
                   res_hist, workspace0,
                   chain_vars>>

\* Line 79: the row is compressed into res; the workspace is only read.
MmAppend ==
    /\ kernel = "mm" /\ pc = "append"
    /\ res' = append_outer(res, workspace)
    /\ outer' = outer + 1
    /\ pc' = "loop"
    /\ UNCHANGED <<kernel, lhs, rhs, in_vec, res_vec, workspace, calls,
                   res_hist, workspace0,
                   chain_vars>>

\* Lines 81-82: the final assert, and the return.
MmReturn ==
    /\ kernel = "mm" /\ pc = "loop" /\ outer = outer_dims(lhs)
    /\ pc' = IF rows(lhs) = rows(res) THEN "done" ELSE "final_assert_failed"
    /\ UNCHANGED <<kernel, lhs, rhs, in_vec, res_vec, workspace, res, outer,
                   calls, res_hist, workspace0,
                   chain_vars>>

Next ==
    \/ CscCheck \/ CscIter \/ CsrCheck \/ CsrIter \/ MatVecReturn
    \/ CallAgain
    \/ MmCheck \/ MmReset \/ MmAccumulate \/ MmAppend \/ MmReturn

Spec == Init /\ [][Next]_vars

\* The state machine of csr_mul_csr and the function agree.
MmAgrees ==
    (kernel = "mm" /\ pc \in {"done", "assert_failed", "index_panic",
                               "final_assert_failed"}) =>
        LET r == csr_mul_csr(lhs, rhs, workspace0)
        IN  /\ r.workspace = workspace
            /\ (pc = "done") = (r.status = "ok")
            /\ pc = "done" => r.res = res

-----------------------------------------------------------------------------
(* A caller chaining csr_mul_csr over three row-major matrices of          *)
(* compatible shapes, each call with a workspace of the length it needs.   *)

WorkspacesOf(n) == {w \in Workspaces : Len(w) = n}

InitChain ==
    /\ kernel = "chain"
    /\ lhs \in {m \in Mats(CSR) : rows(m) \in ChainRows}
    /\ rhs \in {m \in Mats(CSR) : rows(m) = cols(lhs)}
    /\ matC \in {m \in Mats(CSR) : rows(m) = cols(rhs)}
    /\ in_vec = <<>> /\ res_vec = <<>> /\ workspace = <<>>
    /\ res = NoMat
    /\ pc = "ab"
    /\ outer = 0
    /\ calls = 1
    /\ res_hist = <<res_vec>>
    /\ workspace0 = workspace
    /\ ab = NotCalled /\ bc = NotCalled /\ ab_c = NotCalled /\ a_bc = NotCalled

\* ab = csr_mul_csr(lhs, rhs, ws)
ChainAB ==
    /\ kernel = "chain" /\ pc = "ab"
    /\ \E ws \in WorkspacesOf(cols(rhs)) : ab' = Returned(csr_mul_csr(lhs, rhs, ws))
    /\ pc' = "ab_c"
    /\ UNCHANGED <<call_vars_but_pc, matC, bc, ab_c, a_bc>>

\* ab_c = csr_mul_csr(ab, matC, ws)
ChainAB_C ==
    /\ kernel = "chain" /\ pc = "ab_c" /\ ab.status = "ok"
    /\ \E ws \in WorkspacesOf(cols(matC)) :
           ab_c' = Returned(csr_mul_csr(ab.res, matC, ws))
    /\ pc' = "bc"
    /\ UNCHANGED <<call_vars_but_pc, matC, ab, bc, a_bc>>

\* bc = csr_mul_csr(rhs, matC, ws)
ChainBC ==
    /\ kernel = "chain" /\ pc = "bc"
    /\ \E ws \in WorkspacesOf(cols(matC)) : bc' = Returned(csr_mul_csr(rhs, matC, ws))
    /\ pc' = "a_bc"
    /\ UNCHANGED <<call_vars_but_pc, matC, ab, ab_c, a_bc>>

\* a_bc = csr_mul_csr(lhs, bc, ws)
ChainA_BC ==
    /\ kernel = "chain" /\ pc = "a_bc" /\ bc.status = "ok"
    /\ \E ws \in WorkspacesOf(cols(bc.res)) :
           a_bc' = Returned(csr_mul_csr(lhs, bc.res, ws))
    /\ pc' = "done"
    /\ UNCHANGED <<call_vars_but_pc, matC, ab, bc, ab_c>>

NextChain == ChainAB \/ ChainAB_C \/ ChainBC \/ ChainA_BC

SpecChain == InitChain /\ [][NextChain]_vars

-----------------------------------------------------------------------------
(* The matrix a CsMat stands for, and the properties checked.              *)

\* Whether position (r, c) is stored, and the entry (r, c) of the matrix:
\* the stored value, or 0.
Hits(mat, r, c) ==
    LET o   == IF mat.storage = CSR THEN r ELSE c
        i   == IF mat.storage = CSR THEN c ELSE r
        vec == OuterVec(mat, o)
    IN  {vec[n][2] : n \in {m \in 1..Len(vec) : vec[m][1] = i}}
Stored(mat, r, c) == Hits(mat, r, c) # {}
At(mat, r, c) ==
    IF Stored(mat, r, c) THEN CHOOSE v \in Hits(mat, r, c) : TRUE ELSE 0

\* f[0] + ... + f[n - 1]
RECURSIVE SumFn(_, _)
SumFn(f, n) == IF n = 0 THEN 0 ELSE f[n - 1] + SumFn(f, n - 1)

\* Entry r of mat * input.
MatVecAt(mat, input, r) ==
    SumFn([c \in 0..(cols(mat) - 1) |-> At(mat, r, c) * input[c + 1]],
          cols(mat))

\* Entry (i, j) of the matrix product l * r.
ProductAt(l, r, i, j) ==
    SumFn([k \in 0..(cols(l) - 1) |-> At(l, i, k) * At(r, k, j)], cols(l))

\* The output buffer on entry of the call in progress.
Entry == res_hist[calls]

Zeroed(buf) == \A n \in 1..Len(buf) : buf[n] = 0
AllNone(ws) == \A n \in 1..Len(ws) : ws[n] = None

\* C1: csr_mul_csr returns the matrix product: every entry (i, j) of the
\* matrix returned is the sum over k of lhs[i][k] * rhs[k][j].
C1_Product ==
    (kernel = "mm" /\ pc = "done") =>
        \A i \in 0..(rows(lhs) - 1), j \in 0..(cols(rhs) - 1) :
            At(res, i, j) = ProductAt(lhs, rhs, i, j)

\* C2: mul_acc_mat_vec_csc accumulates: when it returns, every output slot
\* holds its value on entry plus the entry of mat * in_vec, each stored
\* entry of each column having been applied exactly once.
C2_CscAccumulates ==
    (kernel = "csc" /\ pc = "done") =>
        /\ Len(res_vec) = rows(lhs)
        /\ \A r \in 0..(rows(lhs) - 1) :
               res_vec[r + 1] = Entry[r + 1] + MatVecAt(lhs, in_vec, r)

C2_Witness ==
    /\ kernel = "csc" /\ pc = "done" /\ calls = 1
    /\ cols(lhs) = 2 /\ Len(lhs.data) = 2
    /\ \E r \in 0..(rows(lhs) - 1) :
          /\ Entry[r + 1] # 0
          /\ Stored(lhs, r, 0) /\ Stored(lhs, r, 1)
          /\ MatVecAt(lhs, in_vec, r) # 0

\* C3: mul_acc_mat_vec_csr accumulates row by row: once the rows below
\* `outer` are processed, each of their output slots holds its value on
\* entry plus the entry of mat * in_vec, and every other slot still holds
\* its value on entry (a row writes its own slot only; a row with no stored
\* entry leaves its slot as it was).
C3_CsrAccumulates ==
    (kernel = "csr" /\ pc \in {"loop", "done"}) =>
        /\ Len(res_vec) = rows(lhs)
        /\ pc = "done" => outer = rows(lhs)
        /\ \A r \in 0..(rows(lhs) - 1) :
               res_vec[r + 1] =
                   Entry[r + 1] +
                   (IF r < outer THEN MatVecAt(lhs, in_vec, r) ELSE 0)

C3_Witness ==
    /\ kernel = "csr" /\ pc = "done" /\ calls = 1
    /\ rows(lhs) = 2
    /\ OuterVec(lhs, 0) = <<>> /\ Len(OuterVec(lhs, 1)) = 2
    /\ Entry[1] # 0 /\ Entry[2] # 0
    /\ res_vec[1] = Entry[1] /\ res_vec[2] # Entry[2]

\* The preconditions of the call in progress, as the source states them.
Preconditions ==
    CASE kernel = "csc" ->
             /\ cols(lhs) = Len(in_vec) /\ rows(lhs) = Len(Entry)
             /\ lhs.storage = CSC
      [] kernel = "csr" ->
             /\ cols(lhs) = Len(in_vec) /\ rows(lhs) = Len(Entry)
             /\ lhs.storage = CSR
      [] kernel = "mm" ->
             /\ cols(lhs) = rows(rhs) /\ cols(rhs) = Len(workspace0)
             /\ lhs.storage = CSR /\ rhs.storage = CSR

\* C4: the preconditions are checked before any accumulation: a call whose
\* preconditions do not hold ends in an assertion failure with the output
\* buffer and the workspace as they were on entry, a call gets past its
\* asserts only if they hold, and no index is ever out of range.
C4_PreconditionsFirst ==
    /\ pc = "assert_failed" =>
           ~Preconditions /\ res_vec = Entry /\ workspace = workspace0
    /\ pc \notin {"call", "assert_failed"} => Preconditions
    /\ ~Preconditions => (res_vec = Entry /\ workspace = workspace0)
    /\ pc # "index_panic"

C4_Witness ==
    /\ kernel = "mm" /\ pc = "assert_failed"
    /\ cols(lhs) = rows(rhs) /\ lhs.storage = CSR /\ rhs.storage = CSR
    /\ Len(workspace) < cols(rhs)
    /\ Len(lhs.data) = 2 /\ Len(rhs.data) = 2
    /\ \E n \in 1..Len(workspace) : workspace[n] # None

\* C5: csr_mul_csr appends exactly one result row per row of lhs, in lhs's
\* order: the result has as many rows as rows of lhs are processed and
\* rhs.cols() columns, a row of lhs with no stored entry gives an empty
\* result row, and the final assert never fails.
C5_ResultShape ==
    kernel = "mm" =>
        /\ pc # "final_assert_failed"
        /\ pc \in {"loop", "accum", "append", "done"} =>
               /\ rows(res) = outer
               /\ cols(res) = cols(rhs)
               /\ \A i \in 0..(outer - 1) :
                      OuterVec(lhs, i) = <<>> => OuterVec(res, i) = <<>>
        /\ pc = "done" => rows(res) = rows(lhs)

C5_Witness ==
    /\ kernel = "mm" /\ pc = "done"
    /\ rows(lhs) = 2 /\ rows(res) = 2
    /\ OuterVec(lhs, 0) = <<>> /\ OuterVec(res, 0) = <<>>
    /\ OuterVec(res, 1) # <<>>

\* The same matrix in the other storage order.
other_storage(mat) ==
    LET R == 0..(rows(mat) - 1)
        C == 0..(cols(mat) - 1)
    IN  IF mat.storage = CSR
        THEN from_entries(CSC, cols(mat), rows(mat),
                 {p \in C \X R : Stored(mat, p[2], p[1])},
                 [p \in C \X R |-> At(mat, p[2], p[1])])
        ELSE from_entries(CSR, rows(mat), cols(mat),
                 {p \in R \X C : Stored(mat, p[1], p[2])},
                 [p \in R \X C |-> At(mat, p[1], p[2])])

\* C6: row-major and column-major accumulation agree: the output of one
\* kernel started from a zeroed buffer equals the output of the other
\* kernel run on the same matrix in the other storage order, with the same
\* input and a zeroed buffer.
C6_StorageOrdersAgree ==
    (kernel \in {"csc", "csr"} /\ pc = "done" /\ calls = 1 /\ Zeroed(Entry)) =>
        LET twin == IF kernel = "csr"
                    THEN mul_acc_mat_vec_csc(other_storage(lhs), in_vec, Entry)
                    ELSE mul_acc_mat_vec_csr(other_storage(lhs), in_vec, Entry)
        IN  twin.status = "ok" /\ twin.v = res_vec

C6_Witness ==
    /\ kernel = "csr" /\ pc = "done" /\ calls = 1 /\ Zeroed(Entry)
    /\ rows(lhs) = 2 /\ cols(lhs) = 2
    /\ Stored(lhs, 0, 1) /\ Stored(lhs, 1, 1)
    /\ res_vec[1] # 0 /\ res_vec[2] # 0 /\ res_vec[1] # res_vec[2]

\* C7: accumulation is additive across calls: after n >= 2 calls with the
\* same matrix and input into a buffer zeroed before the first call, every
\* slot holds n times its value after the first call; and a matrix with no
\* stored entry leaves the buffer as it was, whatever the number of calls.
C7_AdditiveAcrossCalls ==
    (kernel \in {"csc", "csr"} /\ pc = "done") =>
        /\ (calls >= 2 /\ Zeroed(res_hist[1])) =>
               \A n \in 1..Len(res_vec) : res_vec[n] = calls * res_hist[2][n]
        /\ lhs.data = <<>> => res_vec = res_hist[1]

C7_Witness ==
    /\ kernel = "csr" /\ pc = "done" /\ calls = 2 /\ Zeroed(res_hist[1])
    /\ Len(lhs.data) = 2
    /\ \E n \in 1..Len(res_vec) :
           res_hist[2][n] # 0 /\ res_vec[n] = 2 * res_hist[2][n]

\* C8: the sparse product is associative: (lhs x rhs) x matC and
\* lhs x (rhs x matC), both formed by csr_mul_csr, have the same shape and
\* the same entries.
C8_Associative ==
    (kernel = "chain" /\ pc = "done") =>
        /\ ab_c.status = "ok" /\ a_bc.status = "ok"
        /\ rows(ab_c.res) = rows(a_bc.res) /\ cols(ab_c.res) = cols(a_bc.res)
        /\ \A i \in 0..(rows(ab_c.res) - 1), j \in 0..(cols(ab_c.res) - 1) :
               At(ab_c.res, i, j) = At(a_bc.res, i, j)

C8_Witness ==
    /\ kernel = "chain" /\ pc = "done"
    /\ Len(lhs.data) = 2
    /\ rows(rhs) = 2 /\ Stored(rhs, 0, 0) /\ Stored(rhs, 1, 0)
    /\ rows(matC) = 2 /\ Stored(matC, 0, 0) /\ Stored(matC, 1, 0)
    /\ At(ab_c.res, 0, 0) # 0

\* A square matrix whose stored entries are exactly its diagonal entries.
IsDiagonal(mat) ==
    /\ rows(mat) = cols(mat)
    /\ \A r \in 0..(rows(mat) - 1), c \in 0..(cols(mat) - 1) :
           Stored(mat, r, c) <=> r = c

\* C9: the product with a diagonal matrix scales the columns: the result
\* stores in every row the columns lhs stores, and its entry (i, j) is
\* lhs[i][j] * rhs[j][j].
C9_DiagonalProduct ==
    (kernel = "mm" /\ pc = "done" /\ IsDiagonal(rhs)) =>
        \A i \in 0..(rows(lhs) - 1), j \in 0..(cols(lhs) - 1) :
            /\ Stored(res, i, j) <=> Stored(lhs, i, j)
            /\ At(res, i, j) = At(lhs, i, j) * At(rhs, j, j)

C9_Witness ==
    /\ kernel = "mm" /\ pc = "done" /\ IsDiagonal(rhs)
    /\ rows(rhs) = 2 /\ At(rhs, 0, 0) # At(rhs, 1, 1)
    /\ rows(lhs) >= 1
    /\ Stored(lhs, 0, 0) /\ Stored(lhs, 0, 1)
    /\ Stored(res, 0, 0) /\ Stored(res, 0, 1)

\* C10 as claimed: every slot of the workspace is empty when the
\* accumulation of a row starts, and again once the row is completed,
\* also when the call returns.
C10_WorkspaceDrained ==
    kernel = "mm" =>
        /\ pc = "accum" => AllNone(workspace)
        /\ (pc \in {"loop", "done"} /\ outer > 0) => AllNone(workspace)

\* C10 as amended: every slot of the workspace is empty when the
\* accumulation of a row starts, whatever the workspace held on entry; once
\* the row is completed the workspace still holds the row's accumulators,
\* its occupied slots being exactly the entries stored as the result row
\* just appended, until the next row's reset or the return; before the
\* first row the workspace is as on entry.
C10_WorkspaceDiscipline ==
    kernel = "mm" =>
        /\ pc = "accum" => AllNone(workspace)
        /\ (pc \in {"loop", "done"} /\ outer > 0) =>
               Compress(workspace, Len(workspace)) = OuterVec(res, outer - 1)
        /\ (pc \in {"loop", "done"} /\ outer = 0) => workspace = workspace0

C10_Witness ==
    /\ kernel = "mm" /\ pc = "done" /\ outer = 2
    /\ \E n \in 1..Len(workspace0) : workspace0[n] # None
    /\ \E n \in 1..Len(workspace) : workspace[n] # None
    /\ OuterVec(res, 0) # <<>> /\ OuterVec(res, 0) # OuterVec(res, 1)

====
